---- MODULE Spec2Model ----
(***************************************************************************)
(* Model of the audio summarizer pipeline:                                 *)
(*   lambda/s3-trigger-transcribe/lambda_function.py       (ingest trigger)*)
(*   lambda/eventbridge-bedrock-inference/lambda_function.py (normalizer   *)
(*                                          and summarizer dispatch)       *)
(*   summarizer/summarizer_stack.py                 (event rule, wiring)   *)
(*                                                                         *)
(* Python strings are TLA+ strings (\o, Len, SubSeq act on them).  A       *)
(* Python name that may hold None, or may be unbound, is a record          *)
(* [some, v].                                                              *)
(***************************************************************************)
EXTENDS Integers, Sequences, FiniteSets, TLC

VARIABLES
    \* ---- convert_to_txt_file: one call frame, stepped item by item
    n_items,      \* data["results"]["items"] of the call
    n_idx,        \* position of the for loop (next item to read)
    frame,        \* the locals current_speaker, current_text, output, speaker_label
    n_pc,         \* "idle" | "loop" | "returned" | "raised"
    n_ret,        \* the returned transcript string ("".join(output))
    n_prev,       \* outcome of the previous call on the same items, if any
    n_run,        \* number of calls made so far
    \* ---- the pipeline
    jobs,         \* transcription jobs the service accepted, in order
    ingest,       \* what the last ingest invocation did
    n_ingest,     \* number of ingest invocations so far
    store,        \* the shared bucket: key -> object
    writes,       \* every write to the bucket: [key, job]
    events,       \* status events the rule passed on, not yet handled
    summ          \* summarizer dispatch invocations: one record per execution environment

nvars == <<n_items, n_idx, frame, n_pc, n_ret, n_prev, n_run>>
pvars == <<jobs, ingest, n_ingest, store, writes, events, summ>>
vars == <<n_items, n_idx, frame, n_pc, n_ret, n_prev, n_run,
          jobs, ingest, n_ingest, store, writes, events, summ>>

-----------------------------------------------------------------------------
(* Bounds of the model *)

MaxItems == 3      \* longest item sequence handed to the normalizer
MaxRuns == 3       \* calls of the normalizer in one container
MaxLeft == 1       \* longest document whose call a call on another document follows
MaxIngest == 2     \* ingest invocations
MaxSumm == 1       \* summarizer dispatch invocations running at a time

-----------------------------------------------------------------------------
(* Python values *)

None == [some |-> FALSE, v |-> ""]
Some(s) == [some |-> TRUE, v |-> s]

\* str(x) as an f-string formats it: None prints as "None"
Format(x) == IF x.some THEN x.v ELSE "None"

IsSpace(c) == c \in {" ", "\n", "\t", "\r"}

RECURSIVE lstrip(_)
lstrip(s) ==
    IF s # "" /\ IsSpace(Head(s)) THEN lstrip(Tail(s)) ELSE s

RECURSIVE rstrip(_)
rstrip(s) ==
    IF s # "" /\ IsSpace(SubSeq(s, Len(s), Len(s)))
    THEN rstrip(SubSeq(s, 1, Len(s) - 1))
    ELSE s

\* str.strip()
strip(s) == rstrip(lstrip(s))

\* "".join(lines)
RECURSIVE join(_)
join(lines) ==
    IF lines = <<>> THEN "" ELSE Head(lines) \o join(Tail(lines))

-----------------------------------------------------------------------------
(* Transcript items, as the transcription service writes them *)

Speakers == {"spk_0", "spk_1"}
Words == {"Hello", "world", "A", "B", "C"}
Marks == {"."}

Pronunciation(w, l) ==
    [type |-> "pronunciation", content |-> w, speaker_label |-> l]
Punctuation(m) ==
    [type |-> "punctuation", content |-> m, speaker_label |-> ""]

Items ==
    {Pronunciation(w, l) : w \in Words, l \in Speakers}
        \cup {Punctuation(m) : m \in Marks}

RECURSIVE SeqsUpTo(_, _)
SeqsUpTo(S, n) ==
    IF n = 0 THEN {<<>>}
    ELSE LET shorter == SeqsUpTo(S, n - 1)
         IN shorter \cup {Append(s, x) : s \in {t \in shorter : Len(t) = n - 1}, x \in S}

ItemSeqs == SeqsUpTo(Items, MaxItems)

-----------------------------------------------------------------------------
(* convert_to_txt_file *)

\* The locals a new call starts with.  Python gives every call a new frame:
\* nothing the previous call left is visible, and speaker_label is unbound
\* until the first pronunciation item assigns it.
Unbound == None

EmptyFrame ==
    [current_speaker |-> None,
     current_text |-> "",
     output |-> <<>>,
     speaker_label |-> Unbound]

NewFrameStale(left) ==
    [left EXCEPT !.output = <<>>]

NewFrame(left) == EmptyFrame

Line(label, text) == Format(label) \o ": " \o strip(text) \o "\n"

\* One iteration of the for loop over the items.
LoopBodyUntracked(f, item) ==
    IF item.type = "pronunciation"
    THEN IF Some(item.speaker_label) # f.current_speaker
         THEN [f EXCEPT !.speaker_label = Some(item.speaker_label),
                        !.output = IF f.current_text # ""
                                   THEN Append(f.output, Line(f.current_speaker, f.current_text))
                                   ELSE f.output,
                        !.current_text = item.content]
         ELSE [f EXCEPT !.speaker_label = Some(item.speaker_label),
                        !.current_text = f.current_text \o " " \o item.content]
    ELSE IF item.type = "punctuation"
    THEN [f EXCEPT !.current_text = f.current_text \o item.content]
    ELSE f

LoopBodySpaced(f, item) ==
    IF item.type = "pronunciation"
    THEN IF Some(item.speaker_label) # f.current_speaker
         THEN [f EXCEPT !.speaker_label = Some(item.speaker_label),
                        !.output = IF f.current_text # ""
                                   THEN Append(f.output, Line(f.current_speaker, f.current_text))
                                   ELSE f.output,
                        !.current_speaker = Some(item.speaker_label),
                        !.current_text = item.content]
         ELSE [f EXCEPT !.speaker_label = Some(item.speaker_label),
                        !.current_text = f.current_text \o " " \o item.content]
    ELSE [f EXCEPT !.current_text = f.current_text \o " " \o item.content]

LoopBody(f, item) ==
    IF item.type = "pronunciation"
    THEN IF Some(item.speaker_label) # f.current_speaker
         THEN [f EXCEPT !.speaker_label = Some(item.speaker_label),
                        !.output = IF f.current_text # ""
                                   THEN Append(f.output, Line(f.current_speaker, f.current_text))
                                   ELSE f.output,
                        !.current_speaker = Some(item.speaker_label),
                        !.current_text = item.content]
         ELSE [f EXCEPT !.speaker_label = Some(item.speaker_label),
                        !.current_text = f.current_text \o " " \o item.content]
    ELSE IF item.type = "punctuation"
    THEN [f EXCEPT !.current_text = f.current_text \o item.content]
    ELSE f

\* After the loop: the last line is labelled with the loop's speaker_label.
\* Reading it while it is unbound raises UnboundLocalError.
FinalRaises(f) == f.current_text # "" /\ ~f.speaker_label.some

FinalEmit(f) ==
    IF f.current_text # ""
    THEN [f EXCEPT !.output = Append(f.output, Line(f.speaker_label, f.current_text))]
    ELSE f

RECURSIVE RunLoop(_, _)
RunLoop(f, its) ==
    IF its = <<>> THEN f ELSE RunLoop(LoopBody(f, Head(its)), Tail(its))

\* The whole function on a parsed document: what it raises or returns.
convert_to_txt_file(its) ==
    LET f == RunLoop(NewFrame(EmptyFrame), its)
    IN IF FinalRaises(f)
       THEN [raised |-> TRUE, text |-> "", lines |-> f.output]
       ELSE [raised |-> FALSE, text |-> join(FinalEmit(f).output),
             lines |-> FinalEmit(f).output]

NoOutcome == [some |-> FALSE, raised |-> FALSE, text |-> ""]

NormDone == n_pc \in {"returned", "raised"}

\* A call on a new document: the first call of the container, or a call
\* that finds what the call on an earlier document left behind.
NormCall ==
    /\ n_pc = "idle" \/ (NormDone /\ Len(n_items) <= MaxLeft)
    /\ n_run < MaxRuns
    /\ \E its \in ItemSeqs : n_items' = its
    /\ n_idx' = 1
    /\ frame' = NewFrame(frame)
    /\ n_pc' = "loop"
    /\ n_ret' = ""
    /\ n_prev' = NoOutcome
    /\ n_run' = n_run + 1
    /\ UNCHANGED pvars

\* A second call on the document of the call that just ended.
NormCallAgain ==
    /\ NormDone
    /\ n_run < MaxRuns
    /\ n_idx' = 1
    /\ frame' = NewFrame(frame)
    /\ n_pc' = "loop"
    /\ n_ret' = ""
    /\ n_prev' = [some |-> TRUE, raised |-> (n_pc = "raised"), text |-> n_ret]
    /\ n_run' = n_run + 1
    /\ UNCHANGED <<n_items>>
    /\ UNCHANGED pvars

NormIterate ==
    /\ n_pc = "loop"
    /\ n_idx <= Len(n_items)
    /\ frame' = LoopBody(frame, n_items[n_idx])
    /\ n_idx' = n_idx + 1
    /\ UNCHANGED <<n_items, n_pc, n_ret, n_prev, n_run>>
    /\ UNCHANGED pvars

NormFinish ==
    /\ n_pc = "loop"
    /\ n_idx > Len(n_items)
    /\ IF FinalRaises(frame)
       THEN /\ n_pc' = "raised"
            /\ UNCHANGED <<frame, n_ret>>
       ELSE /\ n_pc' = "returned"
            /\ frame' = FinalEmit(frame)
            /\ n_ret' = join(FinalEmit(frame).output)
    /\ UNCHANGED <<n_items, n_idx, n_prev, n_run>>
    /\ UNCHANGED pvars

-----------------------------------------------------------------------------
(* Strings *)

StartsWith(s, pre) ==
    Len(s) >= Len(pre) /\ SubSeq(s, 1, Len(pre)) = pre

\* str.rfind(c) for a one-character c, 1-based; 0 when c does not occur
RECURSIVE rfindFrom(_, _, _)
rfindFrom(s, c, i) ==
    IF i = 0 THEN 0
    ELSE IF SubSeq(s, i, i) = c THEN i
    ELSE rfindFrom(s, c, i - 1)

rfind(s, c) == rfindFrom(s, c, Len(s))

\* The scan of genericpath._splitext: the first position in from..dot-1
\* holding something other than a dot, 0 when there is none
RECURSIVE firstNonDot(_, _, _)
firstNonDot(p, from, dot) ==
    IF from >= dot THEN 0
    ELSE IF SubSeq(p, from, from) # "." THEN from
    ELSE firstNonDot(p, from + 1, dot)

\* splitext that takes the last dot of the whole path
splitextAnyDot(p) ==
    LET dotIndex == rfind(p, ".")
    IN IF dotIndex > 0 /\ firstNonDot(p, 1, dotIndex) # 0
       THEN <<SubSeq(p, 1, dotIndex - 1), SubSeq(p, dotIndex, Len(p))>>
       ELSE <<p, "">>

\* os.path.splitext(p): <<root, extension>>.  The extension starts at the
\* last dot of the last path component; leading dots of the component do
\* not start one.
splitext(p) ==
    LET sepIndex == rfind(p, "/")
        dotIndex == rfind(p, ".")
    IN IF dotIndex > sepIndex /\ firstNonDot(p, sepIndex + 1, dotIndex) # 0
       THEN <<SubSeq(p, 1, dotIndex - 1), SubSeq(p, dotIndex, Len(p))>>
       ELSE <<p, "">>

-----------------------------------------------------------------------------
(* Ingest trigger: lambda/s3-trigger-transcribe/lambda_function.py *)

\* the bucket of the stack: both the notification's bucket and OUTPUT_BUCKET
BUCKET == "bucket"

\* two of the characters of string.ascii_lowercase + string.digits
Alphabet == {"a", "9"}

\* k of random.choices
SuffixLen == 12

RECURSIVE Repeat(_, _)
Repeat(c, n) == IF n = 0 THEN "" ELSE c \o Repeat(c, n - 1)

\* the suffixes random.choices can return that the model draws: one per
\* character, and so some that are equal and some that differ
Suffixes == {Repeat(c, SuffixLen) : c \in Alphabet}

\* object keys the bucket notification (prefix "source/") can carry
ObjectKeys ==
    {"source/", "source/clip", "source/clip.mp3", "source/clip.MP3",
     "source/talk.wav", "source/clip.", "source/.mp3", "source/v1.2/clip"}

\* the keys among them that name a media file: an invocation on any other
\* key submits nothing and leaves the pipeline as it is
MediaKeys == {"source/clip.mp3"}

\* what start_transcription_job can answer
TranscribeAnswers == {"200", "non200", "raise"}

\* a job name without the prefix of the rule
job_nameOtherPrefix(job_id_suffix) == "summary-" \o job_id_suffix

job_name(job_id_suffix) == "summarizer-" \o job_id_suffix

\* an output key that does not carry the job name
OutputKeyShared(name) == "transcription/output.json"

OutputKey(name) == "transcription/" \o name \o ".json"

NoRequest ==
    [TranscriptionJobName |-> "", MediaFileUri |-> "", MediaFormat |-> "",
     OutputBucketName |-> "", OutputKey |-> ""]

\* The whole handler on one notification: the number of
\* start_transcription_job calls it makes, the request of the call, and the
\* result it returns.
lambda_handler_ingest(key, job_id_suffix, answer) ==
    LET name == job_name(job_id_suffix)
        extension == splitext(key)[2]
        media_format == SubSeq(extension, 2, Len(extension))
        request ==
            [TranscriptionJobName |-> name,
             MediaFileUri |-> "s3://" \o BUCKET \o "/" \o key,
             MediaFormat |-> media_format,
             OutputBucketName |-> BUCKET,
             OutputKey |-> OutputKey(name)]
    IN IF key = "source/"
       THEN [calls |-> 0, request |-> NoRequest, accepted |-> FALSE,
             statusCode |-> 200, body |-> "Source folder, skipping"]
       ELSE IF extension = ""
       THEN [calls |-> 0, request |-> NoRequest, accepted |-> FALSE,
             statusCode |-> 400, body |-> "invalid file name " \o key]
       ELSE IF answer = "raise"
       THEN [calls |-> 1, request |-> request, accepted |-> FALSE,
             statusCode |-> 500, body |-> "error"]
       ELSE IF answer = "non200"
       THEN [calls |-> 1, request |-> request, accepted |-> FALSE,
             statusCode |-> 503, body |-> name]
       ELSE [calls |-> 1, request |-> request, accepted |-> TRUE,
             statusCode |-> 200, body |-> name]

NoIngest ==
    [key |-> "", calls |-> 0, request |-> NoRequest, accepted |-> FALSE,
     statusCode |-> 0, body |-> ""]

\* One invocation of the ingest trigger.  A job the service accepted is
\* registered with the output key the request named.  The handler draws the
\* suffix without looking at the names in use, and the answer of the
\* service is an input.
IngestInvoke(key, job_id_suffix, answer) ==
    /\ n_ingest < MaxIngest
    /\ LET r == lambda_handler_ingest(key, job_id_suffix, answer)
       IN /\ ingest' = [key |-> key, calls |-> r.calls, request |-> r.request,
                        accepted |-> r.accepted,
                        statusCode |-> r.statusCode, body |-> r.body]
          /\ jobs' = IF r.accepted
                     THEN Append(jobs, [name |-> r.request.TranscriptionJobName,
                                        OutputKey |-> r.request.OutputKey,
                                        status |-> "SUBMITTED"])
                     ELSE jobs
    /\ n_ingest' = n_ingest + 1
    /\ UNCHANGED <<store, writes, events, summ>>
    /\ UNCHANGED nvars

-----------------------------------------------------------------------------
(* Transcription service and the status-change rule *)

\* objects of the bucket
Garbage == [kind |-> "garbage", items |-> <<>>, text |-> ""]
JsonDoc(its) == [kind |-> "json", items |-> its, text |-> ""]
TextObject(t) == [kind |-> "text", items |-> <<>>, text |-> t]

\* what the service may write as a job's result
Transcripts ==
    {Garbage, JsonDoc(<<Punctuation(".")>>),
     JsonDoc(<<Pronunciation("Hello", "spk_0"), Punctuation(".")>>)}

\* summarizer_stack.py: the event pattern of TranscribeRule
RuleStatuses == {"COMPLETED", "FAILED"}
RulePrefix == "summarizer-"

RuleMatches(ev) ==
    /\ ev.status \in RuleStatuses
    /\ StartsWith(ev.name, RulePrefix)

Put(st, key, obj) ==
    [k \in DOMAIN st \cup {key} |-> IF k = key THEN obj ELSE st[k]]

StatusEvent(name, status, j) ==
    [detail |-> TRUE, name |-> name, status |-> status, job |-> j]

\* A job of the pipeline ends: the service writes the result to the job's
\* output key (COMPLETED only) and emits the status event, which the rule
\* passes to the summarizer when it matches.
JobEnds(j, status, doc) ==
    /\ j \in DOMAIN jobs
    /\ jobs[j].status = "SUBMITTED"
    /\ jobs' = [jobs EXCEPT ![j].status = status]
    /\ IF status = "COMPLETED"
       THEN /\ store' = Put(store, jobs[j].OutputKey, doc)
            /\ writes' = writes \cup {[key |-> jobs[j].OutputKey, job |-> j]}
       ELSE UNCHANGED <<store, writes>>
    /\ LET ev == StatusEvent(jobs[j].name, status, j)
       IN events' = IF RuleMatches(ev) THEN events \cup {ev} ELSE events
    /\ UNCHANGED <<ingest, n_ingest, summ>>
    /\ UNCHANGED nvars

\* A job of another application in the account ends: job 0.
ForeignName == "other-job"

ForeignJobEnds(status) ==
    /\ LET ev == StatusEvent(ForeignName, status, 0)
       IN events' = IF RuleMatches(ev) THEN events \cup {ev} ELSE events
    /\ UNCHANGED <<jobs, ingest, n_ingest, store, writes, summ>>
    /\ UNCHANGED nvars

-----------------------------------------------------------------------------
(* Summarizer dispatch: lambda/eventbridge-bedrock-inference/lambda_function.py *)

TranscriptJsonKey(transcription_job_name) ==
    "transcription/" \o transcription_job_name \o ".json"

TranscriptTxtKey(transcription_job_name) ==
    "transcription/" \o transcription_job_name \o ".txt"

processed_key(transcription_job_name) ==
    "processed/" \o transcription_job_name \o ".txt"

\* the steps of a COMPLETED invocation, in the order of the handler's text
Steps == <<"fetch", "normalize", "persist_transcript", "invoke_model", "persist_summary">>

Step(name, ok) == [step |-> name, ok |-> ok]

\* events the handler is run on by hand or at deployment: the sample event
\* of the module's main block with a status the rule never passes, and an
\* event without "detail"
NoDetailEvent == [detail |-> FALSE, name |-> "", status |-> "", job |-> 0]

SampleName == "summarizer-lmrca78v3tug"

DirectEvents ==
    {NoDetailEvent,
     [detail |-> TRUE, name |-> SampleName, status |-> "IN_PROGRESS", job |-> 0]}

\* The handler returns a result; its locals are gone, the file it
\* downloaded to /tmp stays.
Returned(inv, code, body) ==
    [inv EXCEPT !.pc = "returned", !.statusCode = code, !.body = body,
                !.transcript_content = "", !.prompt = "", !.summary = ""]

\* An exception no except clause of the handler catches leaves the handler.
Faulted(inv, exc) ==
    [inv EXCEPT !.pc = "fault", !.body = exc,
                !.transcript_content = "", !.prompt = "", !.summary = ""]

Did(inv, name, ok) ==
    [inv EXCEPT !.trace = Append(inv.trace, Step(name, ok))]

Idle ==
    [pc |-> "idle", detail |-> FALSE, name |-> "", status |-> "", job |-> 0,
     fetch_key |-> "", doc |-> Garbage, transcript_content |-> "", prompt |-> "", summary |-> "",
     trace |-> <<>>, statusCode |-> 0, body |-> ""]

Ended(inv) == inv.pc \in {"returned", "fault"}

\* the execution environment the next invocation runs in: the first that
\* runs none
Free(i) ==
    /\ i \in DOMAIN summ
    /\ summ[i].pc = "idle" \/ Ended(summ[i])
    /\ \A k \in 1..(i - 1) : ~(summ[k].pc = "idle" \/ Ended(summ[k]))

\* The start of the handler: the event test, get_transcription_job and the
\* branch on the job status.
Begin(ev, answer) ==
    LET inv == [Idle EXCEPT !.pc = "download", !.detail = ev.detail,
                            !.name = ev.name, !.status = ev.status, !.job = ev.job]
    IN IF ~ev.detail
       THEN Returned(inv, 500, "Invalid event received.")
       ELSE IF answer = "raise"
       THEN Faulted(inv, "ClientError")
       ELSE IF ev.status = "COMPLETED"
       THEN inv
       ELSE IF ev.status = "FAILED"
       THEN Returned(inv, 400, "Unable to process, job " \o ev.name \o " failed.")
       ELSE Returned(inv, 500,
                "Transcription job " \o ev.name \o " is not completed or failed.")

\* The rule delivers a status event.
SummStart(ev, answer) ==
    /\ ev \in events
    /\ \E i \in DOMAIN summ :
            Free(i) /\ summ' = [summ EXCEPT ![i] = Begin(ev, answer)]
    /\ events' = events \ {ev}
    /\ UNCHANGED <<jobs, ingest, n_ingest, store, writes>>
    /\ UNCHANGED nvars

\* The handler is run directly.
SummStartDirect(ev, answer) ==
    /\ ev \in DirectEvents
    /\ \E i \in DOMAIN summ :
            Free(i) /\ summ' = [summ EXCEPT ![i] = Begin(ev, answer)]
    /\ UNCHANGED <<jobs, ingest, n_ingest, store, writes, events>>
    /\ UNCHANGED nvars

\* s3_client.download_file: ClientError is caught, anything else is not.
SummDownload(i, answer) ==
    /\ i \in DOMAIN summ
    /\ summ[i].pc = "download"
    /\ LET key == TranscriptJsonKey(summ[i].name)
           inv == [summ[i] EXCEPT !.fetch_key = key]
       IN /\ answer = "ok" => key \in DOMAIN store
          /\ summ' = [summ EXCEPT ![i] =
                CASE answer = "ok" ->
                        [Did(inv, "fetch", TRUE) EXCEPT !.pc = "convert", !.doc = store[key]]
                  [] answer = "ClientError" ->
                        Returned(Did(inv, "fetch", FALSE), 400,
                            "Error downloading s3://" \o BUCKET \o "/" \o key)
                  [] OTHER ->
                        Faulted(Did(inv, "fetch", FALSE), "BotoCoreError")]
    /\ UNCHANGED <<jobs, ingest, n_ingest, store, writes, events>>
    /\ UNCHANGED nvars

\* convert_to_txt_file on the downloaded file, as the handler calls it:
\* the function returns None for a file that is not JSON, and the handler
\* unpacks the result into two names, which raises TypeError on None.
SummConvert(i) ==
    /\ i \in DOMAIN summ
    /\ summ[i].pc = "convert"
    /\ LET inv == summ[i]
           r == convert_to_txt_file(inv.doc.items)
       IN summ' = [summ EXCEPT ![i] =
                IF inv.doc.kind # "json"
                THEN Faulted(Did(inv, "normalize", FALSE), "TypeError")
                ELSE IF r.raised
                THEN Faulted(Did(inv, "normalize", FALSE), "UnboundLocalError")
                ELSE [Did(inv, "normalize", TRUE) EXCEPT
                        !.pc = "upload", !.transcript_content = r.text]]
    /\ UNCHANGED <<jobs, ingest, n_ingest, store, writes, events>>
    /\ UNCHANGED nvars

\* an upload whose failure is logged and does not end the invocation
SummUploadNoAbort(i, answer) ==
    /\ i \in DOMAIN summ
    /\ summ[i].pc = "upload"
    /\ LET inv == summ[i]
           key == TranscriptTxtKey(inv.name)
       IN IF answer = "ok"
          THEN /\ store' = Put(store, key, TextObject(inv.transcript_content))
               /\ writes' = writes \cup {[key |-> key, job |-> inv.job]}
               /\ summ' = [summ EXCEPT ![i] =
                            [Did(inv, "persist_transcript", TRUE) EXCEPT !.pc = "invoke"]]
          ELSE /\ summ' = [summ EXCEPT ![i] =
                            [Did(inv, "persist_transcript", FALSE) EXCEPT !.pc = "invoke"]]
               /\ UNCHANGED <<store, writes>>
    /\ UNCHANGED <<jobs, ingest, n_ingest, events>>
    /\ UNCHANGED nvars

\* s3_client.upload_file of the converted file: every exception is caught.
SummUpload(i, answer) ==
    /\ i \in DOMAIN summ
    /\ summ[i].pc = "upload"
    /\ LET inv == summ[i]
           key == TranscriptTxtKey(inv.name)
       IN IF answer = "ok"
          THEN /\ store' = Put(store, key, TextObject(inv.transcript_content))
               /\ writes' = writes \cup {[key |-> key, job |-> inv.job]}
               /\ summ' = [summ EXCEPT ![i] =
                            [Did(inv, "persist_transcript", TRUE) EXCEPT !.pc = "invoke"]]
          ELSE /\ summ' = [summ EXCEPT ![i] =
                            Returned(Did(inv, "persist_transcript", FALSE), 400,
                                "Error uploading converted file to s3://"
                                    \o BUCKET \o "/" \o key)]
               /\ UNCHANGED <<store, writes>>
    /\ UNCHANGED <<jobs, ingest, n_ingest, events>>
    /\ UNCHANGED nvars

PromptHead == "Summarize the following transcript ... followup activities:\n"

Prompt(transcript_content) == PromptHead \o transcript_content \o "\n"

\* the text the model answers with
Summary == "summary"

\* bedrock_client.invoke_model: ClientError is caught, a response that is
\* not 200 is returned as it is, anything else raised is not caught.
SummInvoke(i, answer) ==
    /\ i \in DOMAIN summ
    /\ summ[i].pc = "invoke"
    /\ LET inv == [summ[i] EXCEPT !.prompt = Prompt(summ[i].transcript_content)]
       IN summ' = [summ EXCEPT ![i] =
                CASE answer = "200" ->
                        [Did(inv, "invoke_model", TRUE) EXCEPT
                            !.pc = "put", !.summary = Summary]
                  [] answer = "non200" ->
                        Returned(Did(inv, "invoke_model", FALSE), 503,
                            "An unknown error occured.")
                  [] answer = "ClientError" ->
                        Returned(Did(inv, "invoke_model", FALSE), 400, "ClientError")
                  [] OTHER ->
                        Faulted(Did(inv, "invoke_model", FALSE), "BotoCoreError")]
    /\ UNCHANGED <<jobs, ingest, n_ingest, store, writes, events>>
    /\ UNCHANGED nvars

\* s3_client.put_object of the summary: no except clause around it.
SummPut(i, answer) ==
    /\ i \in DOMAIN summ
    /\ summ[i].pc = "put"
    /\ LET inv == summ[i]
           key == processed_key(inv.name)
       IN CASE answer = "200" ->
                /\ store' = Put(store, key, TextObject(inv.summary))
                /\ writes' = writes \cup {[key |-> key, job |-> inv.job]}
                /\ summ' = [summ EXCEPT ![i] =
                            Returned(Did(inv, "persist_summary", TRUE), 200, key)]
            [] answer = "non200" ->
                /\ summ' = [summ EXCEPT ![i] =
                            Returned(Did(inv, "persist_summary", FALSE), 503, "response")]
                /\ UNCHANGED <<store, writes>>
            [] OTHER ->
                /\ summ' = [summ EXCEPT ![i] =
                            Faulted(Did(inv, "persist_summary", FALSE), "ClientError")]
                /\ UNCHANGED <<store, writes>>
    /\ UNCHANGED <<jobs, ingest, n_ingest, events>>
    /\ UNCHANGED nvars

-----------------------------------------------------------------------------
(* Specifications *)

PInit ==
    /\ jobs = <<>>
    /\ ingest = NoIngest
    /\ n_ingest = 0
    /\ store = <<>>
    /\ writes = {}
    /\ events = {}
    /\ summ = [i \in 1..MaxSumm |-> Idle]

NInit ==
    /\ n_items = <<>>
    /\ n_idx = 1
    /\ frame = EmptyFrame
    /\ n_pc = "idle"
    /\ n_ret = ""
    /\ n_prev = NoOutcome
    /\ n_run = 0

Init == NInit /\ PInit

\* the pipeline
Next ==
    \/ \E key \in MediaKeys, x \in Suffixes, a \in TranscribeAnswers :
            IngestInvoke(key, x, a)
    \/ \E j \in 1..MaxIngest, st \in {"COMPLETED", "FAILED"}, doc \in Transcripts :
            JobEnds(j, st, doc)
    \/ \E st \in {"COMPLETED", "FAILED"} : ForeignJobEnds(st)
    \/ \E ev \in events, a \in {"ok", "raise"} : SummStart(ev, a)
    \/ \E ev \in DirectEvents, a \in {"ok", "raise"} : SummStartDirect(ev, a)
    \/ \E i \in 1..MaxSumm, a \in {"ok", "ClientError", "BotoCoreError"} : SummDownload(i, a)
    \/ \E i \in 1..MaxSumm : SummConvert(i)
    \/ \E i \in 1..MaxSumm, a \in {"ok", "raise"} : SummUpload(i, a)
    \/ \E i \in 1..MaxSumm, a \in {"200", "non200", "ClientError", "BotoCoreError"} :
            SummInvoke(i, a)
    \/ \E i \in 1..MaxSumm, a \in {"200", "non200", "raise"} : SummPut(i, a)

Spec == Init /\ [][Next]_vars

\* the ingest trigger alone, on every key
NextIngest ==
    \E key \in ObjectKeys, x \in Suffixes, a \in TranscribeAnswers :
        IngestInvoke(key, x, a)

SpecIngest == Init /\ [][NextIngest]_vars

\* the normalizer alone
NextNorm ==
    \/ NormCall
    \/ NormCallAgain
    \/ NormIterate
    \/ NormFinish

SpecNorm == Init /\ [][NextNorm]_vars

-----------------------------------------------------------------------------
(* Properties of the normalizer, under SpecNorm *)

\* the pronunciation items of a sequence, in order
RECURSIVE Spoken(_)
Spoken(its) ==
    IF its = <<>> THEN <<>>
    ELSE IF Head(its).type = "pronunciation"
    THEN <<Head(its)>> \o Spoken(Tail(its))
    ELSE Spoken(Tail(its))

\* the number of maximal runs of consecutive pronunciation items with the
\* same speaker label; punctuation neither starts nor splits a run
NumRuns(its) ==
    LET p == Spoken(its)
    IN Cardinality({k \in 1..Len(p) :
            k = 1 \/ p[k].speaker_label # p[k - 1].speaker_label})

\* C2: for every non-empty item sequence, also one that begins with or
\* consists of punctuation, the number of lines convert_to_txt_file emits
\* equals the number of maximal same-speaker runs of pronunciation items.
C2_LinesEqualRuns ==
    (NormDone /\ n_items # <<>>) => Len(frame.output) = NumRuns(n_items)

\* the punctuation that directly follows position k - 1
RECURSIVE MarksFrom(_, _)
MarksFrom(its, k) ==
    IF k > Len(its) \/ its[k].type # "punctuation" THEN ""
    ELSE its[k].content \o MarksFrom(its, k + 1)

\* the tokens of a sequence that begins with a pronunciation: each word with
\* the punctuation that follows it attached
RECURSIVE TokensFrom(_, _)
TokensFrom(its, k) ==
    IF k > Len(its) THEN <<>>
    ELSE IF its[k].type = "pronunciation"
    THEN <<[label |-> its[k].speaker_label,
            text |-> its[k].content \o MarksFrom(its, k + 1)]>>
                \o TokensFrom(its, k + 1)
    ELSE TokensFrom(its, k + 1)

\* the length of the run of tokens that starts at position k
RECURSIVE RunLength(_, _)
RunLength(toks, k) ==
    IF k < Len(toks) /\ toks[k + 1].label = toks[k].label
    THEN 1 + RunLength(toks, k + 1)
    ELSE 1

RECURSIVE Spaced(_, _, _)
Spaced(toks, from, to) ==
    IF from > to THEN ""
    ELSE IF from = to THEN toks[from].text
    ELSE toks[from].text \o " " \o Spaced(toks, from + 1, to)

\* the reference transcript: one line per run, "<label>: <text>\n"
RECURSIVE ReferenceFrom(_, _)
ReferenceFrom(toks, k) ==
    IF k > Len(toks) THEN ""
    ELSE LET n == RunLength(toks, k)
         IN toks[k].label \o ": " \o Spaced(toks, k, k + n - 1) \o "\n"
                \o ReferenceFrom(toks, k + n)

Reference(its) == ReferenceFrom(TokensFrom(its, 1), 1)

BeginsSpoken(its) == its = <<>> \/ its[1].type = "pronunciation"

HelloWorld ==
    <<Pronunciation("Hello", "spk_0"), Punctuation("."), Pronunciation("world", "spk_1")>>

ABC(l) == <<Pronunciation("A", l), Pronunciation("B", l), Pronunciation("C", l)>>

\* C9: for every item sequence that is empty or begins with a pronunciation
\* item, convert_to_txt_file returns the reference transcript: one line
\* "<label>: <text>\n" per maximal same-speaker run, the words joined by
\* single spaces and each punctuation attached to the token before it.
\* [] gives "", Hello/spk_0 "." world/spk_1 gives
\* "spk_0: Hello.\nspk_1: world\n", and A B C of one speaker one line.
C9_ReturnsReference ==
    (NormDone /\ BeginsSpoken(n_items)) =>
        /\ n_pc = "returned"
        /\ n_ret = Reference(n_items)
        /\ n_items = <<>> => n_ret = ""
        /\ n_items = HelloWorld => n_ret = "spk_0: Hello.\nspk_1: world\n"
        /\ \A l \in Speakers : n_items = ABC(l) => n_ret = l \o ": A B C\n"

C9_Witness ==
    /\ n_pc = "returned"
    /\ n_items = HelloWorld
    /\ n_ret = "spk_0: Hello.\nspk_1: world\n"

SpokenSoFar == \E k \in 1..(n_idx - 1) : n_items[k].type = "pronunciation"

\* the speaker of the last run of a sequence that holds a pronunciation item
LastSpeaker(its) == Spoken(its)[Len(Spoken(its))].speaker_label

\* C11: after every loop iteration with a pronunciation item among the items
\* processed so far, speaker_label is bound and equals current_speaker; so
\* for every item sequence that holds a pronunciation item, also one that
\* ends in punctuation, the call returns and the last line it emits is
\* labelled with current_speaker, the speaker of the last run.
C11_LabelIsCurrentSpeaker ==
    /\ (n_pc \in {"loop", "returned", "raised"} /\ SpokenSoFar) =>
            /\ frame.speaker_label.some
            /\ frame.speaker_label = frame.current_speaker
    /\ (NormDone /\ Spoken(n_items) # <<>>) =>
            /\ n_pc = "returned"
            /\ frame.output # <<>>
            /\ frame.current_speaker = Some(LastSpeaker(n_items))
            /\ frame.output[Len(frame.output)]
                    = Line(frame.current_speaker, frame.current_text)

C11_Witness ==
    /\ n_pc = "returned"
    /\ Len(n_items) = 3
    /\ n_items[1].type = "pronunciation"
    /\ n_items[2].type = "pronunciation"
    /\ n_items[1].speaker_label # n_items[2].speaker_label
    /\ n_items[3].type = "punctuation"
    /\ frame.speaker_label = frame.current_speaker
    /\ frame.output[2] = n_items[2].speaker_label \o ": " \o n_items[2].content \o ".\n"

-----------------------------------------------------------------------------
(* Properties of the ingest trigger, under SpecIngest *)

Char(s, i) == SubSeq(s, i, i)

\* where the last path component of a key starts
ComponentStart(key) ==
    LET slashes == {i \in 1..Len(key) : Char(key, i) = "/"}
    IN IF slashes = {} THEN 1
       ELSE 1 + CHOOSE m \in slashes : \A x \in slashes : x <= m

\* a key has a file extension when its last path component holds a dot
\* that something other than a dot precedes
HasExtension(key) ==
    \E d \in ComponentStart(key)..Len(key) :
        /\ Char(key, d) = "."
        /\ \E c \in ComponentStart(key)..(d - 1) : Char(key, c) # "."

AfterLastDot(key) ==
    LET dots == {i \in 1..Len(key) : Char(key, i) = "."}
    IN IF dots = {} THEN ""
       ELSE SubSeq(key, 1 + (CHOOSE m \in dots : \A x \in dots : x <= m), Len(key))

\* C12: whenever the ingest trigger calls start_transcription_job, the
\* MediaFormat it passes is not empty and is the key's extension without its
\* leading dot, in the case the key has it; a key that gives no format, such
\* as "source/clip.", never reaches the call.
C12_MediaFormatDerived ==
    (n_ingest > 0 /\ ingest.calls = 1) =>
        /\ ingest.request.MediaFormat # ""
        /\ ingest.request.MediaFormat = AfterLastDot(ingest.key)
        /\ ingest.key # "source/clip."

-----------------------------------------------------------------------------
(* Properties of the pipeline, under Spec *)

Running(inv) == inv.pc \notin {"idle", "returned", "fault"}

\* C1: every invocation ends by returning a structured result, whatever
\* call of a collaborator fails and whatever the transcript file holds: no
\* exception leaves the handler.
C1_NoUncaughtFault ==
    \A i \in DOMAIN summ : summ[i].pc # "fault"

\* C3: an invocation on a status event whose status is not COMPLETED returns
\* a failure result and fetches nothing, writes nothing and invokes no model.
C3_NotCompletedOnlyFails ==
    \A i \in DOMAIN summ :
        (summ[i].pc # "idle" /\ summ[i].detail /\ summ[i].status # "COMPLETED") =>
            /\ summ[i].pc = "returned"
            /\ summ[i].statusCode # 200
            /\ summ[i].trace = <<>>
            /\ summ[i].fetch_key = ""

Attempted(inv, name) == \E k \in DOMAIN inv.trace : inv.trace[k].step = name
Succeeded(inv, name) ==
    \E k \in DOMAIN inv.trace : inv.trace[k].step = name /\ inv.trace[k].ok

\* the job names that occur
Names == {job_name(x) : x \in Suffixes} \cup {SampleName, ForeignName}

\* C4: the steps of a COMPLETED invocation happen in the order fetch,
\* normalize, persist transcript, invoke model, persist summary; a step that
\* fails is the last one; the model is invoked only after
\* transcription/<job>.txt was written, and processed/<job>.txt is written
\* only after the model answered with success.
C4_StepsInOrder ==
    /\ \A i \in DOMAIN summ :
        LET inv == summ[i]
        IN /\ Len(inv.trace) <= Len(Steps)
           /\ \A k \in DOMAIN inv.trace :
                /\ inv.trace[k].step = Steps[k]
                /\ k < Len(inv.trace) => inv.trace[k].ok
           /\ (inv.trace # <<>> /\ ~inv.trace[Len(inv.trace)].ok) => Ended(inv)
           /\ inv.trace # <<>> => inv.status = "COMPLETED"
           /\ Attempted(inv, "invoke_model") =>
                /\ Succeeded(inv, "persist_transcript")
                /\ TranscriptTxtKey(inv.name) \in DOMAIN store
                /\ [key |-> TranscriptTxtKey(inv.name), job |-> inv.job] \in writes
           /\ Attempted(inv, "persist_summary") => Succeeded(inv, "invoke_model")
    /\ \A n \in Names :
        processed_key(n) \in DOMAIN store => TranscriptTxtKey(n) \in DOMAIN store

C4_Witness ==
    \E i \in DOMAIN summ :
        /\ summ[i].status = "COMPLETED"
        /\ summ[i].pc = "returned"
        /\ summ[i].statusCode = 200
        /\ Len(summ[i].trace) = 5
        /\ processed_key(summ[i].name) \in DOMAIN store

\* C6: when the fetched transcription/<job>.json is not valid JSON the
\* invocation returns a structured error result, and it persists no
\* transcript, invokes no model and writes no summary.
C6_BadJsonReturnsError ==
    \A i \in DOMAIN summ :
        (Succeeded(summ[i], "fetch") /\ summ[i].doc.kind # "json"
                /\ ~Running(summ[i])) =>
            /\ summ[i].pc = "returned"
            /\ summ[i].statusCode # 200
            /\ ~Attempted(summ[i], "persist_transcript")
            /\ ~Attempted(summ[i], "invoke_model")
            /\ ~Attempted(summ[i], "persist_summary")

NameOf(j) == IF j \in DOMAIN jobs THEN jobs[j].name ELSE ForeignName

C8_PrefixAndKeyAgree ==
    /\ ingest.calls = 1 =>
        /\ StartsWith(ingest.request.TranscriptionJobName, RulePrefix)
        /\ ingest.request.OutputKey = TranscriptJsonKey(ingest.request.TranscriptionJobName)
    /\ \A j \in DOMAIN jobs :
        /\ StartsWith(jobs[j].name, RulePrefix)
        /\ \A st \in RuleStatuses : RuleMatches(StatusEvent(jobs[j].name, st, j))
        /\ jobs[j].OutputKey = TranscriptJsonKey(jobs[j].name)
    /\ \A i \in DOMAIN summ :
        (summ[i].job \in DOMAIN jobs /\ summ[i].pc # "idle") =>
            /\ summ[i].name = jobs[summ[i].job].name
            /\ summ[i].fetch_key # "" => summ[i].fetch_key = jobs[summ[i].job].OutputKey

C8_Witness ==
    \E i \in DOMAIN summ :
        /\ summ[i].job \in DOMAIN jobs
        /\ summ[i].pc = "convert"
        /\ summ[i].fetch_key = jobs[summ[i].job].OutputKey
        /\ summ[i].doc.kind = "json"

====
